---- MODULE Spec2Model ----
(***************************************************************************)
(* Model of the particle emitter of bevy_particles:                        *)
(*   src/components/particle_emitter/emitter_shape/mod.rs                  *)
(*   src/components/particle_emitter/emitter_shape/shapes/convex_mesh.rs   *)
(*                                                                         *)
(* f32 values are fixed-point integers in units of 1/One (One stands for   *)
(* the literal 1.0), a Vec3 is a triple of such integers.  Sums and        *)
(* differences are exact, products and normalisation round toward zero,    *)
(* so "unit length" is a statement up to UnitTol units, as it is up to     *)
(* rounding for f32.  The random generator is the record of the values     *)
(* its next gen_range calls return.                                        *)
(***************************************************************************)
EXTENDS Integers, Sequences, FiniteSets, TLC

VARIABLES emitter, op, outcome, particle, sampled, rng, draws, history

vars == <<emitter, op, outcome, particle, sampled, rng, draws, history>>

\* the f32 literal 1.0 in fixed point
One == 100

\* number of update_index calls followed
MaxCalls == 5

\* rounding tolerance (in units of 1/One) of a normalised vector's length
UnitTol == 2

----------------------------------------------------------------------------
\* Vec3 arithmetic (glam), in fixed point

Abs(a) == IF a < 0 THEN -a ELSE a

Sign(a) == IF a < 0 THEN -1 ELSE 1

\* f32 product of two fixed-point values, rounded toward zero
FMul(a, b) == Sign(a * b) * (Abs(a * b) \div One)

VecZero == <<0, 0, 0>>

VecY == <<0, One, 0>>

VecAdd(u, v) == <<u[1] + v[1], u[2] + v[2], u[3] + v[3]>>

VecSub(u, v) == <<u[1] - v[1], u[2] - v[2], u[3] - v[3]>>

VecScale(v, k) == <<FMul(v[1], k), FMul(v[2], k), FMul(v[3], k)>>

\* squared length, in units of 1/One^2
LengthSquared(v) == v[1] * v[1] + v[2] * v[2] + v[3] * v[3]

RECURSIVE SqrtSearch(_, _, _)
SqrtSearch(n, lo, hi) ==
    IF lo >= hi THEN lo
    ELSE LET mid == (lo + hi + 1) \div 2
         IN  IF mid * mid <= n THEN SqrtSearch(n, mid, hi)
                               ELSE SqrtSearch(n, lo, mid - 1)

\* floor of the square root of n, for 0 <= n <= One^2
ISqrt(n) == SqrtSearch(n, 0, One)

\* Vec3::try_normalize: None for a zero-length vector, else v / |v|
try_normalize(v) ==
    LET n == LengthSquared(v)
        comp(a) == Sign(a) * ISqrt((a * a * One * One) \div n)
    IN  IF n = 0
        THEN [some |-> FALSE, value |-> VecZero]
        ELSE [some |-> TRUE, value |-> <<comp(v[1]), comp(v[2]), comp(v[3])>>]

\* Option::unwrap_or
unwrap_or(opt, default) == IF opt.some THEN opt.value ELSE default

\* the idiom `.try_normalize().unwrap_or(Vec3::Y)`
NormalizeOrY(v) == unwrap_or(try_normalize(v), VecY)

\* a * k + b * (1.0 - k)
Blend(a, b, k) == VecAdd(VecScale(a, k), VecScale(b, One - k))

IsUnit(v) ==
    /\ LengthSquared(v) >= (One - UnitTol) * (One - UnitTol)
    /\ LengthSquared(v) <= (One + UnitTol) * (One + UnitTol)

----------------------------------------------------------------------------
\* Data model

Automatic == [kind |-> "Automatic", dir |-> VecZero]

Fixed(dir) == [kind |-> "Fixed", dir |-> dir]

\* impl Default for EmittedParticle
DefaultEmittedParticle == [position |-> VecZero, direction |-> VecY]

\* impl Default for EmissionSpread
DefaultEmissionSpread ==
    [amount |-> One \div 10, loop_mode |-> "Loop", uniform |-> FALSE,
     current_index |-> 0, upwards |-> TRUE]

ModeRandom == [kind |-> "Random"]

ModeSpread(spread) == [kind |-> "Spread", spread |-> spread]

\* ConvexMesh: the mesh is its vertex count and its position attribute
\* (absent, Float32x3 data, or data of another format)
ConvexMesh(count, attr, positions, center) ==
    [count |-> count, attr |-> attr, positions |-> positions,
     nominal_center |-> center]

Half == One \div 2

Corner == <<Half, Half, Half>>

Vertices == << Corner, <<-Half, Half, 0>> >>

Shapes ==
    { ConvexMesh(0, "none", << >>, Corner),
      ConvexMesh(2, "Float32x3", Vertices, VecZero),
      ConvexMesh(2, "Float32x3", Vertices, Corner),
      ConvexMesh(2, "none", << >>, VecZero),
      ConvexMesh(2, "Float32x2", << >>, VecZero) }

Thicknesses == {0, One}

BaseModes == {Automatic, Fixed(<<One, 0, 0>>), Fixed(<<2 * One, 0, 0>>)}

Ratios == {0, Half, One}

Amounts == {0, (3 * One) \div 10, One}

LoopModes == {"Loop", "PingPong"}

DirectionParams ==
    [base_mode : BaseModes, randomize_direction : Ratios,
     spherize_direction : Ratios]

\* a spread as constructed: the running state is that of Default
InitialSpreads ==
    { [DefaultEmissionSpread EXCEPT !.amount = a, !.loop_mode = l, !.uniform = u] :
        a \in Amounts, l \in LoopModes, u \in BOOLEAN }

Modes == {ModeRandom} \cup { ModeSpread(s) : s \in InitialSpreads }

EmitterShapes ==
    [shape : Shapes, thickness : Thicknesses,
     direction_params : DirectionParams, mode : Modes]

----------------------------------------------------------------------------
\* EmissionSpread::update_index

\* variant: Loop wraps modulo 1.0 instead of reflecting
update_index_modulo(self) ==
    LET stepped == IF self.upwards THEN self.current_index + self.amount
                                   ELSE self.current_index - self.amount
        previous_index == IF self.upwards THEN stepped - self.amount
                                          ELSE stepped + self.amount
        after ==
            IF self.loop_mode = "Loop"
            THEN IF stepped > One
                 THEN [self EXCEPT !.current_index = stepped - One]
                 ELSE [self EXCEPT !.current_index = stepped]
            ELSE IF stepped < 0 \/ stepped > One
                 THEN [self EXCEPT !.upwards = ~self.upwards,
                                   !.current_index = previous_index]
                 ELSE [self EXCEPT !.current_index = stepped]
    IN  [spread |-> after, ret |-> <<previous_index, after.current_index>>]

\* variant: PingPong flips the direction but keeps the out-of-range step
update_index_keep_step(self) ==
    LET stepped == IF self.upwards THEN self.current_index + self.amount
                                   ELSE self.current_index - self.amount
        previous_index == IF self.upwards THEN stepped - self.amount
                                          ELSE stepped + self.amount
        after ==
            IF self.loop_mode = "Loop"
            THEN IF stepped > One
                 THEN [self EXCEPT !.current_index = One - stepped]
                 ELSE [self EXCEPT !.current_index = stepped]
            ELSE IF stepped < 0 \/ stepped > One
                 THEN [self EXCEPT !.upwards = ~self.upwards,
                                   !.current_index = stepped]
                 ELSE [self EXCEPT !.current_index = stepped]
    IN  [spread |-> after, ret |-> <<previous_index, after.current_index>>]

\* variant: Loop reflects twice the overshoot
update_index_double(self) ==
    LET stepped == IF self.upwards THEN self.current_index + self.amount
                                   ELSE self.current_index - self.amount
        previous_index == IF self.upwards THEN stepped - self.amount
                                          ELSE stepped + self.amount
        after ==
            IF self.loop_mode = "Loop"
            THEN IF stepped > One
                 THEN [self EXCEPT !.current_index = 2 * (One - stepped)]
                 ELSE [self EXCEPT !.current_index = stepped]
            ELSE IF stepped < 0 \/ stepped > One
                 THEN [self EXCEPT !.upwards = ~self.upwards,
                                   !.current_index = previous_index]
                 ELSE [self EXCEPT !.current_index = stepped]
    IN  [spread |-> after, ret |-> <<previous_index, after.current_index>>]

update_index(self) ==
    LET stepped == IF self.upwards THEN self.current_index + self.amount
                                   ELSE self.current_index - self.amount
        previous_index == IF self.upwards THEN stepped - self.amount
                                          ELSE stepped + self.amount
        after ==
            IF self.loop_mode = "Loop"
            THEN IF stepped > One
                 THEN [self EXCEPT !.current_index = One - stepped]
                 ELSE [self EXCEPT !.current_index = stepped]
            ELSE IF stepped < 0 \/ stepped > One
                 THEN [self EXCEPT !.upwards = ~self.upwards,
                                   !.current_index = previous_index]
                 ELSE [self EXCEPT !.current_index = stepped]
    IN  [spread |-> after, ret |-> <<previous_index, after.current_index>>]

----------------------------------------------------------------------------
\* impl Emitter for ConvexMesh

\* variant: the Automatic direction is left unnormalised
emit_random_particle_raw(self, r, thickness, direction_mode) ==
    IF self.count = 0
    THEN [outcome |-> "particle", particle |-> DefaultEmittedParticle, draws |-> 0]
    ELSE IF self.attr = "none"
    THEN [outcome |-> "expect", particle |-> DefaultEmittedParticle, draws |-> 0]
    ELSE IF self.attr # "Float32x3"
    THEN [outcome |-> "format", particle |-> DefaultEmittedParticle, draws |-> 0]
    ELSE LET position == self.positions[r.index + 1]
             coef == r.coef
         IN  [outcome |-> "particle",
              particle |->
                [position |-> VecScale(position, coef),
                 direction |->
                    IF direction_mode.kind = "Automatic"
                    THEN VecSub(position, self.nominal_center)
                    ELSE direction_mode.dir],
              draws |-> 2]

\* variant: no early return for a mesh without vertices
emit_random_particle_unguarded(self, r, thickness, direction_mode) ==
    IF self.attr = "none"
    THEN [outcome |-> "expect", particle |-> DefaultEmittedParticle, draws |-> 0]
    ELSE IF self.attr # "Float32x3"
    THEN [outcome |-> "format", particle |-> DefaultEmittedParticle, draws |-> 0]
    ELSE IF r.index + 1 > Len(self.positions)
    THEN [outcome |-> "bounds", particle |-> DefaultEmittedParticle, draws |-> 0]
    ELSE LET position == self.positions[r.index + 1]
             coef == r.coef
         IN  [outcome |-> "particle",
              particle |->
                [position |-> VecScale(position, coef),
                 direction |->
                    IF direction_mode.kind = "Automatic"
                    THEN NormalizeOrY(VecSub(position, self.nominal_center))
                    ELSE direction_mode.dir],
              draws |-> 2]

emit_random_particle(self, r, thickness, direction_mode) ==
    IF self.count = 0
    THEN [outcome |-> "particle", particle |-> DefaultEmittedParticle, draws |-> 0]
    ELSE IF self.attr = "none"
    THEN [outcome |-> "expect", particle |-> DefaultEmittedParticle, draws |-> 0]
    ELSE IF self.attr # "Float32x3"
    THEN [outcome |-> "format", particle |-> DefaultEmittedParticle, draws |-> 0]
    ELSE LET position == self.positions[r.index + 1]
             coef == r.coef
         IN  [outcome |-> "particle",
              particle |->
                [position |-> VecScale(position, coef),
                 direction |->
                    IF direction_mode.kind = "Automatic"
                    THEN NormalizeOrY(VecSub(position, self.nominal_center))
                    ELSE direction_mode.dir],
              draws |-> 2]

\* variant: an unimplemented spread path answers with a random sample
spread_particle_fallback(self, spread, r, thickness, direction_mode) ==
    [emit_random_particle(self, r, thickness, direction_mode)
        EXCEPT !.draws = @] @@ [spread |-> spread]

\* todo!(): panics before it touches `spread` or `rng`
spread_particle(self, spread, r, thickness, direction_mode) ==
    [outcome |-> "todo", particle |-> DefaultEmittedParticle, draws |-> 0,
     spread |-> spread]

----------------------------------------------------------------------------
\* EmitterShape::emit_particle

\* first pass of the composer: blend toward a random direction
randomize_pass(p, params, r) ==
    IF params.randomize_direction > 0
    THEN LET random_direction == NormalizeOrY(<<r.x, r.y, r.z>>)
         IN  [p EXCEPT !.direction =
                NormalizeOrY(Blend(random_direction, p.direction,
                                   params.randomize_direction))]
    ELSE p

\* variant: the pass is guarded by >= 0.0 instead of > 0.0
spherize_pass_always(p, params) ==
    IF params.spherize_direction >= 0
    THEN [p EXCEPT !.direction =
            NormalizeOrY(Blend(p.position, p.direction,
                               params.spherize_direction))]
    ELSE p

\* second pass of the composer: blend toward the particle's own position
spherize_pass(p, params) ==
    IF params.spherize_direction > 0
    THEN [p EXCEPT !.direction =
            NormalizeOrY(Blend(p.position, p.direction,
                               params.spherize_direction))]
    ELSE p

\* the sampler call of emit_particle, dispatched on the emission mode
sample(self, r) ==
    IF self.mode.kind = "Random"
    THEN emit_random_particle(self.shape, r, self.thickness,
                              self.direction_params.base_mode)
    ELSE spread_particle(self.shape, self.mode.spread, r, self.thickness,
                         self.direction_params.base_mode)

\* the emitter after the sampler call: only `spread` is borrowed mutably
after_sample(self, shot) ==
    IF self.mode.kind = "Spread"
    THEN [self EXCEPT !.mode = ModeSpread(shot.spread)]
    ELSE self

composer_draws(params) == IF params.randomize_direction > 0 THEN 3 ELSE 0

\* variant: spherization runs before randomization
emit_particle_swapped(self, r) ==
    LET shot == sample(self, r)
        params == self.direction_params
    IN  IF shot.outcome # "particle"
        THEN [self |-> after_sample(self, shot), outcome |-> shot.outcome,
              particle |-> shot.particle, sampled |-> shot.particle,
              draws |-> [sampler |-> shot.draws, composer |-> 0]]
        ELSE [self |-> after_sample(self, shot), outcome |-> "particle",
              particle |-> randomize_pass(spherize_pass(shot.particle, params),
                                          params, r),
              sampled |-> shot.particle,
              draws |-> [sampler |-> shot.draws,
                         composer |-> composer_draws(params)]]

\* variant: a Spread emission starts from a fresh EmissionSpread
emit_particle_reset(self, r) ==
    LET shot == sample(self, r)
        params == self.direction_params
        fresh == IF self.mode.kind = "Spread"
                 THEN [self EXCEPT !.mode = ModeSpread(DefaultEmissionSpread)]
                 ELSE self
    IN  IF shot.outcome # "particle"
        THEN [self |-> fresh, outcome |-> shot.outcome,
              particle |-> shot.particle, sampled |-> shot.particle,
              draws |-> [sampler |-> shot.draws, composer |-> 0]]
        ELSE [self |-> fresh, outcome |-> "particle",
              particle |-> spherize_pass(randomize_pass(shot.particle, params, r),
                                         params),
              sampled |-> shot.particle,
              draws |-> [sampler |-> shot.draws,
                         composer |-> composer_draws(params)]]

emit_particle(self, r) ==
    LET shot == sample(self, r)
        params == self.direction_params
    IN  IF shot.outcome # "particle"
        THEN [self |-> after_sample(self, shot), outcome |-> shot.outcome,
              particle |-> shot.particle, sampled |-> shot.particle,
              draws |-> [sampler |-> shot.draws, composer |-> 0]]
        ELSE [self |-> after_sample(self, shot), outcome |-> "particle",
              particle |-> spherize_pass(randomize_pass(shot.particle, params, r),
                                         params),
              sampled |-> shot.particle,
              draws |-> [sampler |-> shot.draws,
                         composer |-> composer_draws(params)]]

----------------------------------------------------------------------------
\* The random generator: the values its next gen_range calls return.  A
\* value that the call does not draw is fixed, the generator not being
\* advanced.

Samples(e) ==
    /\ e.mode.kind = "Random"
    /\ e.shape.count > 0
    /\ e.shape.attr = "Float32x3"

\* rng.gen_range(0..positions.len())
IndexDraws(e) == IF Samples(e) THEN 0 .. (Len(e.shape.positions) - 1) ELSE {0}

\* rng.gen_range((1.0 - thickness)..=1.0): the two ends of the range
CoefDraws(e) == IF Samples(e) THEN {One - e.thickness, One} ELSE {One}

Randomizes(e) ==
    /\ e.direction_params.randomize_direction > 0
    /\ e.mode.kind = "Random"
    /\ e.shape.count = 0 \/ e.shape.attr = "Float32x3"

\* rng.gen_range(-1.0..=1.0), three times: values sampled from the range
AxisDraws(e, values) == IF Randomizes(e) THEN values ELSE {0}

RngStreams(e) ==
    [index : IndexDraws(e), coef : CoefDraws(e),
     x : AxisDraws(e, {-One, 0}), y : AxisDraws(e, {0, One}),
     z : AxisDraws(e, {-One, 0})]

NoRng == [index |-> 0, coef |-> One, x |-> 0, y |-> 0, z |-> 0]

NoDraws == [sampler |-> 0, composer |-> 0]

----------------------------------------------------------------------------
\* The state machine: one emitter and the calls made on it

\* a panic unwinds: no further call is made on the emitter
Panicked == outcome \in {"todo", "expect", "format", "bounds"}

Init ==
    /\ emitter \in EmitterShapes
    /\ op = "new"
    /\ outcome = "none"
    /\ particle = DefaultEmittedParticle
    /\ sampled = DefaultEmittedParticle
    /\ rng = NoRng
    /\ draws = NoDraws
    /\ history = << >>

\* emitter.emit_particle(rng)
EmitParticle ==
    /\ ~Panicked
    /\ \E r \in RngStreams(emitter) :
         LET res == emit_particle(emitter, r)
         IN  /\ emitter' = res.self
             /\ op' = "emit_particle"
             /\ outcome' = res.outcome
             /\ particle' = res.particle
             /\ sampled' = res.sampled
             /\ rng' = r
             /\ draws' = res.draws
             /\ history' = history

\* shape.spread_particle(spread, rng, thickness, base_mode), called directly
SpreadParticle ==
    /\ ~Panicked
    /\ emitter.mode.kind = "Spread"
    /\ \E r \in RngStreams(emitter) :
         LET res == spread_particle(emitter.shape, emitter.mode.spread, r,
                                    emitter.thickness,
                                    emitter.direction_params.base_mode)
         IN  /\ emitter' = [emitter EXCEPT !.mode = ModeSpread(res.spread)]
             /\ op' = "spread_particle"
             /\ outcome' = res.outcome
             /\ particle' = res.particle
             /\ sampled' = res.particle
             /\ rng' = r
             /\ draws' = [sampler |-> res.draws, composer |-> 0]
             /\ history' = history

\* spread.update_index(), called directly on the emitter's spread
UpdateIndex ==
    /\ ~Panicked
    /\ emitter.mode.kind = "Spread"
    /\ Len(history) < MaxCalls
    /\ LET res == update_index(emitter.mode.spread)
       IN  /\ emitter' = [emitter EXCEPT !.mode = ModeSpread(res.spread)]
           /\ op' = "update_index"
           /\ outcome' = "index"
           /\ history' = Append(history, res.ret)
           /\ UNCHANGED <<particle, sampled, rng, draws>>

Next == EmitParticle \/ SpreadParticle \/ UpdateIndex

Spec == Init /\ [][Next]_vars

----------------------------------------------------------------------------
\* Properties

InSpread == emitter.mode.kind = "Spread"

Emitted == op = "emit_particle" /\ outcome = "particle"

Params == emitter.direction_params

\* the indices stored by the update_index calls made so far
Stored == [k \in 1 .. Len(history) |-> history[k][2]]

Tenth(n) == (n * One) \div 10

\* amount = 0.3 from the default running state: Loop, then PingPong
LoopRun == <<Tenth(3), Tenth(6), Tenth(9), -Tenth(2), Tenth(1), Tenth(4), Tenth(7)>>

PingPongRun == <<Tenth(3), Tenth(6), Tenth(9), Tenth(9), Tenth(6), Tenth(3), 0>>

IsPrefix(s, t) == Len(s) <= Len(t) /\ \A k \in 1 .. Len(s) : s[k] = t[k]

\* C1: in Loop mode with upwards set, a call to update_index adds amount to
\* current_index and replaces a result above 1.0 by 1.0 - result; upwards is
\* left alone; with amount 0.3 the stored indices run 0.3, 0.6, 0.9, -0.2.
C1_LoopReflects ==
    [][ (history' # history /\ InSpread
            /\ emitter.mode.spread.loop_mode = "Loop"
            /\ emitter.mode.spread.upwards)
        => LET s == emitter.mode.spread
               t == emitter'.mode.spread
               sum == s.current_index + s.amount
           IN  /\ t.current_index = IF sum > One THEN One - sum ELSE sum
               /\ t.upwards = s.upwards
               /\ s.amount = Tenth(3) => IsPrefix(Stored', LoopRun) ]_vars

C1_Witness ==
    /\ InSpread
    /\ emitter.mode.spread.loop_mode = "Loop"
    /\ emitter.mode.spread.amount = Tenth(3)
    /\ Len(history) = 4
    /\ emitter.mode.spread.current_index = -Tenth(2)
    /\ emitter.mode.spread.upwards

\* C2: in PingPong mode a call to update_index that would step below 0.0 or
\* above 1.0 flips upwards and leaves current_index as it was before the
\* call, and the next call steps the other way; with amount 0.3 the stored
\* indices run 0.3, 0.6, 0.9, 0.9, 0.6.
C2_PingPongDiscards ==
    [][ (history' # history /\ InSpread
            /\ emitter.mode.spread.loop_mode = "PingPong")
        => LET s == emitter.mode.spread
               t == emitter'.mode.spread
               attempt == IF s.upwards THEN s.current_index + s.amount
                                       ELSE s.current_index - s.amount
           IN  /\ (attempt < 0 \/ attempt > One)
                    => /\ t.current_index = s.current_index
                       /\ t.upwards = ~s.upwards
               /\ ~(attempt < 0 \/ attempt > One)
                    => /\ t.current_index = attempt
                       /\ t.upwards = s.upwards
               /\ s.amount = Tenth(3) => IsPrefix(Stored', PingPongRun) ]_vars

C2_Witness ==
    /\ InSpread
    /\ emitter.mode.spread.loop_mode = "PingPong"
    /\ emitter.mode.spread.amount = Tenth(3)
    /\ Len(history) = 5
    /\ Stored[4] = Tenth(9)
    /\ emitter.mode.spread.current_index = Tenth(6)
    /\ ~emitter.mode.spread.upwards

\* C3 as stated: in either loop mode the stored current_index lies in [0,1].
C3_IndexInUnitRange ==
    InSpread => /\ emitter.mode.spread.current_index >= 0
                /\ emitter.mode.spread.current_index <= One

\* C3: from the default running state with amount in [0,1], the stored
\* current_index never exceeds 1.0; in PingPong mode it is never below 0.0,
\* in Loop mode never below -amount.
C3_IndexRange ==
    InSpread =>
        LET s == emitter.mode.spread
        IN  /\ s.current_index <= One
            /\ s.loop_mode = "PingPong" => s.current_index >= 0
            /\ s.loop_mode = "Loop" => s.current_index >= -s.amount

C3_Witness ==
    /\ InSpread
    /\ emitter.mode.spread.loop_mode = "Loop"
    /\ emitter.mode.spread.current_index < 0
    /\ Len(history) > 0

\* C4 as stated: every returned particle has a unit-length direction.
C4_AlwaysUnit == Emitted => IsUnit(particle.direction)

\* C4: a returned particle has a unit-length direction when the base mode is
\* Automatic, when a composer pass runs, when the mesh has no vertices or
\* when the Fixed direction is itself of unit length; with a Fixed direction,
\* both ratios 0.0 and a mesh with vertices the direction is the one given.
C4_UnitDirection ==
    Emitted =>
        /\ ( \/ Params.base_mode.kind = "Automatic"
             \/ Params.randomize_direction > 0
             \/ Params.spherize_direction > 0
             \/ emitter.shape.count = 0
             \/ IsUnit(Params.base_mode.dir) )
           => IsUnit(particle.direction)
        /\ ( /\ Params.base_mode.kind = "Fixed"
             /\ Params.randomize_direction = 0
             /\ Params.spherize_direction = 0
             /\ emitter.shape.count > 0 )
           => particle.direction = Params.base_mode.dir

C4_Witness ==
    /\ Emitted
    /\ Params.base_mode.kind = "Fixed"
    /\ ~IsUnit(Params.base_mode.dir)
    /\ emitter.shape.count > 0
    /\ Params.randomize_direction > 0
    /\ Params.randomize_direction < One
    /\ IsUnit(particle.direction)
    /\ particle.direction # VecY

C6_SpreadUnimplemented ==
    (op = "spread_particle" \/ (op = "emit_particle" /\ InSpread))
        => outcome = "todo" /\ draws = NoDraws

C6_Witness ==
    /\ op = "emit_particle"
    /\ InSpread
    /\ emitter.shape.count > 0
    /\ emitter.shape.attr = "Float32x3"
    /\ outcome = "todo"

\* C7: with randomize_direction = 0.0 and spherize_direction = 0.0 the
\* particle emit_particle returns is the sampler's particle, and the composer
\* draws nothing from the generator.
C7_ComposerNoOp ==
    (Emitted /\ Params.randomize_direction = 0 /\ Params.spherize_direction = 0)
        => /\ particle = sampled
           /\ sampled = emit_random_particle(emitter.shape, rng, emitter.thickness,
                                             Params.base_mode).particle
           /\ draws.composer = 0

C7_Witness ==
    /\ Emitted
    /\ Params.randomize_direction = 0
    /\ Params.spherize_direction = 0
    /\ emitter.shape.count > 0
    /\ Params.base_mode.kind = "Fixed"
    /\ ~IsUnit(particle.direction)
    /\ draws.sampler = 2

\* C8 as stated: an emit_particle call in Spread mode advances the spread
\* index by one update_index step, and a call in Random mode does not.
C8_EmitAdvancesOnce ==
    [][ op' = "emit_particle"
        => IF InSpread
           THEN emitter'.mode.kind = "Spread"
                /\ emitter'.mode.spread = update_index(emitter.mode.spread).spread
           ELSE emitter' = emitter ]_vars

\* the running state and the configuration of an emitter
Config(e) ==
    [shape |-> e.shape, thickness |-> e.thickness,
     direction_params |-> e.direction_params, kind |-> e.mode.kind,
     spread |-> IF e.mode.kind = "Spread"
                THEN <<e.mode.spread.amount, e.mode.spread.loop_mode,
                       e.mode.spread.uniform>>
                ELSE << >>]

\* C9: a call changes nothing in the emitter but current_index and upwards:
\* shape, thickness, direction_params, the mode variant, amount, loop_mode
\* and uniform keep their values, and in Random mode the emitter is unchanged.
C9_ConfigFrame ==
    [][ /\ Config(emitter') = Config(emitter)
        /\ ~InSpread => emitter' = emitter ]_vars

C9_Witness ==
    /\ op = "emit_particle"
    /\ InSpread
    /\ Len(history) > 1
    /\ emitter.mode.spread.amount # DefaultEmissionSpread.amount
    /\ emitter.mode.spread.current_index # 0
    /\ ~emitter.mode.spread.upwards

\* C10: the composer runs after sampling, randomization first: the
\* spherization pass blends the sampled position with the direction left by
\* the randomization pass, and the position is the sampled one.
C10_PassOrder ==
    Emitted =>
        LET k1 == Params.randomize_direction
            k2 == Params.spherize_direction
            random_direction == NormalizeOrY(<<rng.x, rng.y, rng.z>>)
            first == IF k1 > 0
                     THEN NormalizeOrY(Blend(random_direction, sampled.direction, k1))
                     ELSE sampled.direction
            second == IF k2 > 0
                      THEN NormalizeOrY(Blend(sampled.position, first, k2))
                      ELSE first
        IN  /\ particle.position = sampled.position
            /\ particle.direction = second

C10_Witness ==
    /\ Emitted
    /\ Params.randomize_direction = Half
    /\ Params.spherize_direction = Half
    /\ sampled.position # VecZero
    /\ <<rng.x, rng.y, rng.z>> # VecZero
    /\ particle.direction # sampled.direction
    /\ particle.direction #
          NormalizeOrY(Blend(NormalizeOrY(<<rng.x, rng.y, rng.z>>),
                             NormalizeOrY(Blend(sampled.position, sampled.direction,
                                                Half)),
                             Half))

====
